---- MODULE Spec2Model ----
(***************************************************************************)
(* Model of the market-terminal backend (src/main.py): the SQLite store of *)
(* watchlists and their member symbols, the Angel One broker client, and   *)
(* the request handlers that read and write them.                          *)
(*                                                                         *)
(* The persisted database is the variable db.  Everything else that the    *)
(* handlers can see is per-process state (the broker client object and the *)
(* interpreter's string-hash seed) or the environment (the wall clock, the *)
(* environment variables, the broker's own view of the session).           *)
(***************************************************************************)
EXTENDS Integers, Sequences, FiniteSets, TLC

VARIABLES
    db,             \* the file market_terminal.db: both tables and sqlite_sequence
    now,            \* CURRENT_TIMESTAMP, in whole seconds
    env,            \* the environment variables read by AngelOneAPI.__init__
    smart_api,      \* angel_api.smart_api: TRUE iff a SmartConnect object is held
    access_token,   \* angel_api.access_token: "unset" (no attribute), "None", "jwt"
    hash_seed,      \* the per-process randomisation of hash(str)
    started,        \* the startup event of this process has run
    starts,         \* number of process startups so far
    broker_session, \* the broker's side of the session: "none", "valid", "expired"
    last,           \* the most recent call: its arguments, status and response body
    pending,        \* per server process: the add_stock that has passed its check
    locked          \* a connection left open by a failed handler holds the write lock

vars == <<db, now, env, smart_api, access_token, hash_seed, started, starts,
          broker_session, last, pending, locked>>

proc_vars == <<env, smart_api, access_token, hash_seed, started, starts>>

----------------------------------------------------------------------------
(* Bounds of the model.                                                    *)

\* seconds the wall clock advances
MaxClock == 1

\* process startups
MaxStarts == 2

\* membership rows inserted by request handlers
MaxInserts == 3

\* largest watchlist id assigned
MaxWatchlistId == 4

----------------------------------------------------------------------------
(* Inputs.                                                                 *)

\* request symbols, as the caller spells them
InputSymbols == {"tcs", "TCS", "itc"}

\* watchlist ids used in requests: the seeded "My Portfolio", and the first id
\* create_watchlist assigns (no watchlist has it until then)
InputWatchlistIds == {1, 4}

InputNames == {"Tech"}

\* the seeds string hashing can start from
HashSeeds == {1, 2}

\* the server processes that can serve the same database file
Workers == {1, 2}

InputSymbolLists == {<< >>, <<"tcs", "infy">>, <<"tcs", "TCS">>}

\* str.upper() on the symbols that occur
upper(s) ==
    CASE s = "tcs"  -> "TCS"
      [] s = "infy" -> "INFY"
      [] s = "itc"  -> "ITC"
      [] OTHER      -> s

----------------------------------------------------------------------------
(* The store.                                                              *)

default_stocks == <<"RELIANCE", "TCS", "INFY", "EMS", "BIKAJI">>

default_watchlists ==
    << [id |-> 1, name |-> "My Portfolio"],
       [id |-> 2, name |-> "Growth Stocks"],
       [id |-> 3, name |-> "Value Picks"] >>

EmptyDb == [watchlists |-> << >>, stocks |-> << >>, seq_w |-> 0, seq_s |-> 0]

Max(a, b) == IF a >= b THEN a ELSE b

RECURSIVE SelectSeq2(_, _, _)
\* the subsequence of rows whose watchlist_id and symbol match (w, s)
SelectSeq2(rows, w, s) ==
    IF rows = << >> THEN << >>
    ELSE LET r == Head(rows)
             rest == SelectSeq2(Tail(rows), w, s)
         IN IF r.watchlist_id = w /\ r.symbol = s THEN <<r>> \o rest ELSE rest

RECURSIVE RowsOf(_, _)
\* WHERE watchlist_id = w, in rowid order (the order of the table scan)
RowsOf(rows, w) ==
    IF rows = << >> THEN << >>
    ELSE LET r == Head(rows)
             rest == RowsOf(Tail(rows), w)
         IN IF r.watchlist_id = w THEN <<r>> \o rest ELSE rest

\* INSERT INTO watchlists (name): AUTOINCREMENT id, one past the largest ever used
InsertWatchlist(d, name) ==
    [d EXCEPT !.watchlists = Append(@, [id |-> d.seq_w + 1, name |-> name]),
              !.seq_w = d.seq_w + 1]

\* INSERT OR IGNORE INTO watchlists (id, name): ignored iff the PRIMARY KEY exists;
\* the table is kept in id order
RECURSIVE InsertById(_, _)
InsertById(ws, row) ==
    IF ws = << >> THEN <<row>>
    ELSE IF Head(ws).id > row.id THEN <<row>> \o ws
    ELSE <<Head(ws)>> \o InsertById(Tail(ws), row)

InsertOrIgnoreWatchlist(d, row) ==
    IF \E i \in DOMAIN d.watchlists : d.watchlists[i].id = row.id
    THEN d
    ELSE [d EXCEPT !.watchlists = InsertById(@, row),
                   !.seq_w = Max(d.seq_w, row.id)]

\* INSERT INTO watchlist_stocks (watchlist_id, symbol): AUTOINCREMENT id,
\* added_at DEFAULT CURRENT_TIMESTAMP
InsertStock(d, w, s, t) ==
    [d EXCEPT !.stocks = Append(@, [id |-> d.seq_s + 1, watchlist_id |-> w,
                                    symbol |-> s, added_at |-> t]),
              !.seq_s = d.seq_s + 1]

\* the only uniqueness constraint of watchlist_stocks is its PRIMARY KEY id,
\* which the insert assigns itself: a (watchlist_id, symbol) insert never conflicts
StockConflict(d, w, s) ==
    \E i \in DOMAIN d.stocks : d.stocks[i].id = d.seq_s + 1

\* INSERT OR IGNORE INTO watchlist_stocks (watchlist_id, symbol)
InsertOrIgnoreStock(d, w, s, t) ==
    IF StockConflict(d, w, s) THEN d ELSE InsertStock(d, w, s, t)

RECURSIVE SeedWatchlists(_, _)
SeedWatchlists(d, ws) ==
    IF ws = << >> THEN d
    ELSE SeedWatchlists(InsertOrIgnoreWatchlist(d, Head(ws)), Tail(ws))

RECURSIVE SeedStocks(_, _, _)
SeedStocks(d, syms, t) ==
    IF syms = << >> THEN d
    ELSE SeedStocks(InsertOrIgnoreStock(d, 1, Head(syms), t), Tail(syms), t)

\* init_db(): create tables if missing, seed the default watchlists and stocks
init_db(d, t) == SeedStocks(SeedWatchlists(d, default_watchlists), default_stocks, t)

\* SELECT COUNT(*) FROM watchlist_stocks WHERE watchlist_id = ? AND symbol = ?
CountPair(d, w, s) == Len(SelectSeq2(d.stocks, w, s))

\* number of membership rows of watchlist w
CountOf(d, w) == Len(RowsOf(d.stocks, w))


\* DELETE FROM watchlist_stocks WHERE watchlist_id = ? AND symbol = ?
RECURSIVE DeleteRows(_, _, _)
DeleteRows(rows, w, s) ==
    IF rows = << >> THEN << >>
    ELSE LET r == Head(rows)
             rest == DeleteRows(Tail(rows), w, s)
         IN IF r.watchlist_id = w /\ r.symbol = s THEN rest ELSE <<r>> \o rest

DeleteStock(d, w, s) == [d EXCEPT !.stocks = DeleteRows(@, w, s)]

\* ORDER BY added_at: SQLite's sorter is a merge sort that keeps rows with equal
\* keys in the order of the scan, i.e. in rowid order
RECURSIVE InsertByAddedAt(_, _)
InsertByAddedAt(sorted, r) ==
    IF sorted = << >> THEN <<r>>
    ELSE IF Head(sorted).added_at > r.added_at THEN <<r>> \o sorted
    ELSE <<Head(sorted)>> \o InsertByAddedAt(Tail(sorted), r)

RECURSIVE OrderByAddedAt(_)
OrderByAddedAt(rows) ==
    IF rows = << >> THEN << >>
    ELSE InsertByAddedAt(OrderByAddedAt(SubSeq(rows, 1, Len(rows) - 1)), rows[Len(rows)])

\* SELECT symbol FROM watchlist_stocks WHERE watchlist_id = ? ORDER BY added_at
list_symbols(d, w) ==
    LET rows == OrderByAddedAt(RowsOf(d.stocks, w))
    IN [i \in DOMAIN rows |-> rows[i].symbol]

\* w LEFT JOIN watchlist_stocks ws ON w.id = ws.watchlist_id: the matching rows'
\* symbols, or one row of NULLs when there is none
LeftJoinSymbols(d, wid) ==
    LET rows == RowsOf(d.stocks, wid)
    IN IF rows = << >> THEN <<"NULL">> ELSE [i \in DOMAIN rows |-> rows[i].symbol]

\* variant: COUNT(DISTINCT ws.symbol)
stock_count_distinct(d, wid) ==
    LET syms == LeftJoinSymbols(d, wid)
    IN Cardinality({syms[i] : i \in DOMAIN syms} \ {"NULL"})

\* COUNT(ws.symbol) over one group: the number of non-NULL symbols
stock_count(d, wid) ==
    LET syms == LeftJoinSymbols(d, wid)
    IN Cardinality({i \in DOMAIN syms : syms[i] # "NULL"})

RECURSIVE WatchlistsWithRows(_, _)
WatchlistsWithRows(ws, d) ==
    IF ws = << >> THEN << >>
    ELSE IF RowsOf(d.stocks, Head(ws).id) = << >> THEN WatchlistsWithRows(Tail(ws), d)
    ELSE <<Head(ws)>> \o WatchlistsWithRows(Tail(ws), d)

\* variant: an inner JOIN, which has no group for a watchlist without rows
list_watchlists_inner_join(d) ==
    LET ws == WatchlistsWithRows(d.watchlists, d)
    IN [i \in DOMAIN ws |->
          [id |-> ws[i].id, name |-> ws[i].name, stock_count |-> stock_count(d, ws[i].id)]]

\* the result of GET /api/watchlists: one entry per watchlists row, ORDER BY w.id
list_watchlists(d) ==
    [i \in DOMAIN d.watchlists |->
        [id |-> d.watchlists[i].id, name |-> d.watchlists[i].name,
         stock_count |-> stock_count(d, d.watchlists[i].id)]]

----------------------------------------------------------------------------
(* The broker client.                                                      *)

symbol_tokens ==
    [s \in {"RELIANCE", "TCS", "INFY", "HDFCBANK", "ITC", "SBIN", "BHARTIARTL",
            "ASIANPAINT", "MARUTI", "KOTAKBANK"} |->
        CASE s = "RELIANCE"   -> "2885"
          [] s = "TCS"        -> "11536"
          [] s = "INFY"       -> "1594"
          [] s = "HDFCBANK"   -> "1333"
          [] s = "ITC"        -> "424"
          [] s = "SBIN"       -> "3045"
          [] s = "BHARTIARTL" -> "10604"
          [] s = "ASIANPAINT" -> "236"
          [] s = "MARUTI"     -> "10999"
          [] s = "KOTAKBANK"  -> "492"]

DefaultToken == "26009"

\* symbol_tokens.get(symbol, "26009")
token_for(symbol) ==
    IF symbol \in DOMAIN symbol_tokens THEN symbol_tokens[symbol] ELSE DefaultToken

Tokens == {symbol_tokens[s] : s \in DOMAIN symbol_tokens} \cup {DefaultToken}

\* What the broker can answer to ltpData.  "raises" is any exception of the SDK
\* call; "malformed" is a reply with status true and no usable data.
FailReplies == {[kind |-> "status_false"], [kind |-> "raises"], [kind |-> "malformed"]}

\* a well-formed reply; the one for the index token carries no change fields
OkReply(t) ==
    IF t = DefaultToken
    THEN [kind |-> "ok", ltp |-> 44258, has_change |-> FALSE, change |-> 0, pChange |-> 0]
    ELSE [kind |-> "ok", ltp |-> 2500, has_change |-> TRUE, change |-> 12, pChange |-> 3]

\* the broker's answers during one request, per exchange token: every lookup
\* fails in one way, or (only while the session is valid) all succeed, or some do
Feeds(session) ==
    { [t \in Tokens |-> f] : f \in FailReplies }
    \cup (IF session # "valid" THEN {}
          ELSE { [t \in Tokens |-> OkReply(t)],
                 [t \in Tokens |-> IF t \in {"11536", DefaultToken}
                                   THEN OkReply(t) ELSE [kind |-> "raises"]],
                 [t \in Tokens |-> IF t = "2885"
                                   THEN OkReply(t) ELSE [kind |-> "malformed"]] })

\* smart_api.ltpData("NSE", symbol, token): a token the broker does not list is refused
ltpData(feed, token) ==
    IF token \in DOMAIN feed THEN feed[token] ELSE [kind |-> "status_false"]

None == [none |-> TRUE]

\* variant: get_ltp without the test of data['status']
get_ltp_unchecked(has_api, token_state, feed, symbol) ==
    IF ~has_api \/ token_state # "jwt" THEN None
    ELSE LET data == ltpData(feed, token_for(symbol))
         IN IF data.kind = "ok"
            THEN [symbol |-> symbol, ltp |-> data.ltp,
                  change |-> IF data.has_change THEN data.change ELSE 0,
                  changePercent |-> IF data.has_change THEN data.pChange ELSE 0]
            ELSE [symbol |-> symbol, ltp |-> 0, change |-> 0, changePercent |-> 0]

\* AngelOneAPI.get_ltp(symbol)
get_ltp(has_api, token_state, feed, symbol) ==
    IF ~has_api \/ token_state # "jwt" THEN None
    ELSE LET data == ltpData(feed, token_for(symbol))
         IN IF data.kind = "ok"
            THEN [symbol |-> symbol, ltp |-> data.ltp,
                  change |-> IF data.has_change THEN data.change ELSE 0,
                  changePercent |-> IF data.has_change THEN data.pChange ELSE 0]
            ELSE None

\* AngelOneAPI.generate_session(): the token the client holds afterwards
generate_session(e, has_api, token_state, reply) ==
    IF ~has_api THEN token_state
    ELSE IF e.totp_secret /\ reply = "ok" THEN "jwt"
    ELSE token_state

\* AngelOneAPI.__init__: access_token is only assigned when an API key is set
AngelOneAPI_token(e) == IF e.api_key THEN "None" ELSE "unset"

\* which of ANGEL_API_KEY, ANGEL_TOTP_SECRET and ANGEL_CLIENT_CODE/ANGEL_PASSWORD
\* are set: all of them, or all but one
Envs ==
    { [api_key |-> TRUE,  totp_secret |-> TRUE,  creds |-> TRUE],
      [api_key |-> FALSE, totp_secret |-> TRUE,  creds |-> TRUE],
      [api_key |-> TRUE,  totp_secret |-> FALSE, creds |-> TRUE],
      [api_key |-> TRUE,  totp_secret |-> TRUE,  creds |-> FALSE] }

\* the broker accepts a login only with a TOTP secret and valid client code/password
LoginReplies(e) ==
    IF e.totp_secret /\ e.creds THEN {"ok", "status_false", "raises"}
    ELSE {"status_false", "raises"}

----------------------------------------------------------------------------
(* Quotes.                                                                 *)

SymCode(s) ==
    CASE s = "RELIANCE" -> 1 [] s = "TCS" -> 2 [] s = "INFY" -> 3 [] s = "EMS" -> 4
      [] s = "BIKAJI" -> 5 [] s = "ITC" -> 6 [] OTHER -> 7

\* hash(symbol): a signed value that is fixed within a process and differs
\* between processes (string hashing is randomised per interpreter start)
hash(seed, s) == ((((SymCode(s) * 7919) + (seed * 104729)) * 613) % 4000037) - 2000000

live_quote(symbol, real_data) ==
    [symbol |-> symbol, ltp |-> real_data.ltp, change |-> real_data.change,
     changePercent |-> <<real_data.changePercent, 1>>,
     volume |-> 0, sector |-> "Live Data"]

\* variant: the price moved by the change, ltp = base + delta
mock_quote_ltp_plus_delta(seed, symbol) ==
    [symbol |-> symbol,
     ltp |-> (1000 + (hash(seed, symbol) % 2000)) + ((hash(seed, symbol) % 200) - 100),
     change |-> (hash(seed, symbol) % 200) - 100,
     changePercent |-> <<(hash(seed, symbol) % 200) - 100, 10>>,
     volume |-> (hash(seed, symbol) % 1000000) + 100000,
     sector |-> "Technology"]

\* the fallback quote; changePercent is the quotient <<numerator, denominator>>
mock_quote(seed, symbol) ==
    [symbol |-> symbol,
     ltp |-> 1000 + (hash(seed, symbol) % 2000),
     change |-> (hash(seed, symbol) % 200) - 100,
     changePercent |-> <<(hash(seed, symbol) % 200) - 100, 10>>,
     volume |-> (hash(seed, symbol) % 1000000) + 100000,
     sector |-> "Technology"]

\* the body of GET /api/watchlists/{id}/stocks
get_quotes(d, has_api, token_state, seed, feed, w) ==
    LET syms == list_symbols(d, w)
    IN [i \in DOMAIN syms |->
          LET real_data == get_ltp(has_api, token_state, feed, syms[i])
          IN IF real_data # None THEN live_quote(syms[i], real_data)
             ELSE mock_quote(seed, syms[i])]


----------------------------------------------------------------------------
(* The record of a call: what was asked, what the store held for it before *)
(* the call, and what the caller got back.                                 *)

Call(op, w, s, status, body, d) ==
    [op |-> op, w |-> w, s |-> s, status |-> status, body |-> body,
     \* the broker's side of the session when the call was served
     session |-> broker_session,
     \* the pair (w, s) had a membership row before the call
     member0 |-> \E i \in DOMAIN d.stocks :
                    d.stocks[i].watchlist_id = w /\ d.stocks[i].symbol = upper(s),
     \* the number of membership rows of w before the call
     cnt0 |-> CountOf(d, w)]

\* no add_stock in flight
Idle == [w |-> 0, s |-> ""]

NoCall ==
    [op |-> "none", w |-> 0, s |-> "", status |-> 0, body |-> << >>,
     session |-> "none", member0 |-> FALSE, cnt0 |-> 0]

\* membership rows inserted by request handlers so far (every startup inserts
\* all the default stocks)
HandlerInserts == db.seq_s - (starts * Len(default_stocks))

----------------------------------------------------------------------------
(* Initial state: the module has been imported, nothing has run yet.       *)

Init ==
    /\ db = EmptyDb
    /\ now = 0
    /\ env \in Envs
    /\ smart_api = env.api_key
    /\ access_token = AngelOneAPI_token(env)
    /\ hash_seed \in HashSeeds
    /\ started = FALSE
    /\ starts = 0
    /\ broker_session = "none"
    /\ last = NoCall
    /\ pending = [p \in Workers |-> Idle]
    /\ locked = FALSE

----------------------------------------------------------------------------
(* Environment steps.                                                      *)

\* the wall clock reaches the next second
Tick ==
    /\ now < MaxClock
    /\ now' = now + 1
    /\ UNCHANGED <<pending, locked, db, proc_vars, broker_session, last>>

\* the broker ends the session it had granted
SessionExpire ==
    /\ broker_session = "valid"
    /\ broker_session' = "expired"
    /\ UNCHANGED <<pending, locked, db, now, proc_vars, last>>

\* the process exits and the module is imported afresh: a new AngelOneAPI object
\* from the same environment, a new hash seed; the database file stays, the
\* connections of the process are closed
Restart ==
    /\ started
    /\ starts < MaxStarts
    /\ smart_api' = env.api_key
    /\ access_token' = AngelOneAPI_token(env)
    /\ hash_seed' \in HashSeeds
    /\ started' = FALSE
    /\ locked' = FALSE
    /\ UNCHANGED <<pending, db, now, env, starts, broker_session, last>>

----------------------------------------------------------------------------
(* Startup and the request handlers.                                       *)

startup_event ==
    /\ ~started
    /\ starts < MaxStarts
    /\ db' = init_db(db, now)
    /\ IF env.api_key
       THEN \E reply \in LoginReplies(env) :
               /\ access_token' = generate_session(env, smart_api, access_token, reply)
               /\ broker_session' = IF access_token' = "jwt" THEN "valid" ELSE broker_session
       ELSE UNCHANGED <<access_token, broker_session>>
    /\ started' = TRUE
    /\ starts' = starts + 1
    /\ last' = Call("startup", 1, "", 200, << >>, db)
    /\ UNCHANGED <<pending, locked, now, env, smart_api, hash_seed>>

get_watchlists ==
    /\ started
    /\ last' = Call("get_watchlists", 0, "", 200, list_watchlists(db), db)
    /\ UNCHANGED <<pending, locked, db, now, proc_vars, broker_session>>

RECURSIVE InsertSymbols(_, _, _, _)
\* the loop of create_watchlist over the symbols it gets to
InsertSymbols(d, wid, symbols, t) ==
    IF symbols = << >> THEN d
    ELSE InsertSymbols(InsertStock(d, wid, upper(Head(symbols)), t), wid, Tail(symbols), t)

\* variant: every statement committed as it runs
create_watchlist_autocommit(before, tx, failed) == tx

\* What create_watchlist leaves in the database file.  All its inserts run in one
\* implicit transaction of one connection and conn.commit() is the last statement:
\* an insert that raises leaves the transaction uncommitted, and it is rolled back
\* when the connection is dropped.
create_watchlist_persist(before, tx, failed) == IF failed THEN before ELSE tx

\* The cyclic garbage collector frees the connection that a failed create_watchlist
\* left open: its pending transaction is rolled back and the write lock released.
collect_connection ==
    /\ locked
    /\ locked' = FALSE
    /\ UNCHANGED <<pending, db, now, proc_vars, broker_session, last>>

\* fail_at = 0: every insert succeeds; fail_at = k: the k-th membership insert raises.
\* There is no close on the error path: the handler is left with the connection
\* open and its write transaction pending, and the file stays locked for writers
\* until that connection is collected.  While it is locked the first INSERT of a
\* later call raises "database is locked".
create_watchlist(name, symbols, fail_at) ==
    /\ started
    /\ db.seq_w < MaxWatchlistId
    /\ HandlerInserts + Len(symbols) <= MaxInserts
    /\ LET tx0 == InsertWatchlist(db, name)
           watchlist_id == tx0.seq_w
           done == IF fail_at = 0 THEN symbols ELSE SubSeq(symbols, 1, fail_at - 1)
           tx == InsertSymbols(tx0, watchlist_id, done, now)
       IN IF locked
          THEN /\ db' = db
               /\ last' = Call("create_watchlist", watchlist_id, "", 500,
                               [symbols |-> symbols, fail_at |-> fail_at], db)
               /\ UNCHANGED locked
          ELSE /\ db' = create_watchlist_persist(db, tx, fail_at # 0)
               /\ last' = Call("create_watchlist", watchlist_id, "",
                               IF fail_at # 0 THEN 500 ELSE 200,
                               [symbols |-> symbols, fail_at |-> fail_at], db)
               /\ locked' = (fail_at # 0)
    /\ UNCHANGED <<pending, now, proc_vars, broker_session>>

\* the existence check of add_stock: SELECT COUNT(*) ... > 0 on the uppercased symbol
add_stock_exists(d, w, sym) == CountPair(d, w, upper(sym)) > 0

add_stock(w, sym) ==
    /\ started
    /\ IF add_stock_exists(db, w, sym)
       THEN /\ db' = db
            /\ last' = Call("add_stock", w, sym, 400, << >>, db)
       ELSE IF locked
       \* the INSERT raises "database is locked"
       THEN /\ db' = db
            /\ last' = Call("add_stock", w, sym, 500, << >>, db)
       ELSE /\ HandlerInserts < MaxInserts
            /\ db' = InsertStock(db, w, upper(sym), now)
            /\ last' = Call("add_stock", w, sym, 200, << >>, db)
    /\ UNCHANGED <<pending, locked, now, proc_vars, broker_session>>

\* the DELETE raises "database is locked" while the write lock is held, whether
\* or not a row matches
remove_stock(w, sym) ==
    /\ started
    /\ IF locked
       THEN /\ db' = db
            /\ last' = Call("remove_stock", w, sym, 500, << >>, db)
       ELSE /\ db' = DeleteStock(db, w, upper(sym))
            /\ last' = Call("remove_stock", w, sym, 200, << >>, db)
    /\ UNCHANGED <<pending, locked, now, proc_vars, broker_session>>

\* variant: a handler that logs in again when it finds the session expired
get_watchlist_stocks_relogin(w, feed) ==
    /\ started
    /\ last' = Call("get_watchlist_stocks", w, "", 200,
                    [stocks |-> get_quotes(db, smart_api, access_token, hash_seed, feed, w),
                     feed |-> feed], db)
    /\ broker_session' = IF broker_session = "expired" /\ access_token = "jwt"
                         THEN "valid" ELSE broker_session
    /\ UNCHANGED <<pending, locked, db, now, proc_vars>>

\* variant: a handler that gives up the token when a lookup fails
get_watchlist_stocks_drop_token(w, feed) ==
    /\ started
    /\ last' = Call("get_watchlist_stocks", w, "", 200,
                    [stocks |-> get_quotes(db, smart_api, access_token, hash_seed, feed, w),
                     feed |-> feed], db)
    /\ access_token' =
          IF access_token = "jwt"
             /\ \E i \in DOMAIN last'.body.stocks : last'.body.stocks[i].sector = "Technology"
          THEN "None" ELSE access_token
    /\ UNCHANGED <<pending, locked, db, now, env, smart_api, hash_seed, started, starts,
                   broker_session>>

get_watchlist_stocks(w, feed) ==
    /\ started
    /\ last' = Call("get_watchlist_stocks", w, "", 200,
                    [stocks |-> get_quotes(db, smart_api, access_token, hash_seed, feed, w),
                     feed |-> feed], db)
    /\ UNCHANGED <<pending, locked, db, now, proc_vars, broker_session>>

\* variant: the status taken from the broker's view of the session
health_check_probe ==
    /\ started
    /\ IF access_token = "unset"
       THEN last' = Call("health_check", 0, "", 500, "AttributeError", db)
       ELSE last' = Call("health_check", 0, "", 200,
                         IF broker_session = "valid" THEN "Connected" ELSE "Mock Data", db)
    /\ UNCHANGED <<pending, locked, db, now, proc_vars, broker_session>>

\* angel_api.access_token raises AttributeError when __init__ never assigned it
health_check ==
    /\ started
    /\ IF access_token = "unset"
       THEN last' = Call("health_check", 0, "", 500, "AttributeError", db)
       ELSE last' = Call("health_check", 0, "", 200,
                         IF access_token = "jwt" THEN "Connected" ELSE "Mock Data", db)
    /\ UNCHANGED <<pending, locked, db, now, proc_vars, broker_session>>

\* the broker's answers to ltpData("NSE", "NIFTY", "99926000")
IndexReplies(session) ==
    FailReplies \cup (IF session = "valid" THEN {OkReply("99926000")} ELSE {})

static_indices == <<"NIFTY 50", "SENSEX", "BANK NIFTY">>

\* GET /api/market/indices: the live NIFTY 50 when a token is held and the lookup
\* succeeds, the static table otherwise
get_market_indices(reply) ==
    /\ started
    /\ IF access_token = "unset"
       THEN last' = Call("get_market_indices", 0, "", 500, "AttributeError", db)
       ELSE last' = Call("get_market_indices", 0, "", 200,
                         IF access_token = "jwt" /\ reply.kind = "ok"
                         THEN <<"NIFTY 50">> ELSE static_indices, db)
    /\ UNCHANGED <<pending, locked, db, now, proc_vars, broker_session>>

----------------------------------------------------------------------------
(* Spec: the store under every sequence of startup, creation, additions,   *)
(* removals and reads, in one process without broker credentials.          *)

InitStore ==
    /\ Init
    /\ env = [api_key |-> FALSE, totp_secret |-> TRUE, creds |-> TRUE]
    /\ hash_seed = 1

Next ==
    \/ Tick
    \/ startup_event
    \/ get_watchlists
    \/ \E name \in InputNames, symbols \in InputSymbolLists :
          \E fail_at \in 0..Len(symbols) : create_watchlist(name, symbols, fail_at)
    \/ \E w \in InputWatchlistIds, sym \in InputSymbols : add_stock(w, sym)
    \/ \E w \in InputWatchlistIds, sym \in InputSymbols : remove_stock(w, sym)
    \/ \E w \in InputWatchlistIds : get_watchlist_stocks(w, [t \in Tokens |-> [kind |-> "raises"]])
    \/ collect_connection

Spec == InitStore /\ [][Next]_vars

----------------------------------------------------------------------------
(* SpecWorkers: several server processes on one database file.  Within one *)
(* process a handler runs from its first statement to its return without   *)
(* yielding (it is a coroutine with no await), so its statements interleave *)
(* only with those of handlers of another process.                         *)

\* the startup event of a further server process: init_db on the shared file
\* (while the file is locked init_db raises and the process does not come up)
worker_startup ==
    /\ started
    /\ ~locked
    /\ starts < Cardinality(Workers)
    /\ starts < MaxStarts
    /\ db' = init_db(db, now)
    /\ starts' = starts + 1
    /\ last' = Call("startup", 1, "", 200, << >>, db)
    /\ UNCHANGED <<pending, locked, now, env, smart_api, access_token, hash_seed, started,
                   broker_session>>

\* membership rows that the requests in flight are still to insert
PendingInserts == Cardinality({p \in Workers : pending[p] # Idle})

\* add_stock in process p up to its existence check: rejected, or past the check
add_stock_check(p, w, sym) ==
    /\ starts >= p
    /\ pending[p] = Idle
    /\ IF add_stock_exists(db, w, sym)
       THEN /\ last' = Call("add_stock", w, sym, 400, << >>, db)
            /\ UNCHANGED pending
       ELSE /\ HandlerInserts + PendingInserts < MaxInserts
            /\ pending' = [pending EXCEPT ![p] = [w |-> w, s |-> sym]]
            /\ UNCHANGED last
    /\ UNCHANGED <<locked, db, now, proc_vars, broker_session>>

\* variant: the insert refused when the pair has a row by now (a UNIQUE constraint)
add_stock_insert_unique(p) ==
    /\ pending[p] # Idle
    /\ LET r == pending[p]
       IN IF CountPair(db, r.w, upper(r.s)) > 0
          THEN /\ db' = db
               /\ last' = Call("add_stock", r.w, r.s, 500, << >>, db)
          ELSE /\ db' = InsertStock(db, r.w, upper(r.s), now)
               /\ last' = Call("add_stock", r.w, r.s, 200, << >>, db)
    /\ pending' = [pending EXCEPT ![p] = Idle]
    /\ UNCHANGED <<locked, now, proc_vars, broker_session>>

\* the rest of add_stock in process p: INSERT, commit, answer
add_stock_insert(p) ==
    /\ pending[p] # Idle
    /\ LET r == pending[p]
       IN IF locked
          THEN /\ db' = db
               /\ last' = Call("add_stock", r.w, r.s, 500, << >>, db)
          ELSE /\ db' = InsertStock(db, r.w, upper(r.s), now)
               /\ last' = Call("add_stock", r.w, r.s, 200, << >>, db)
    /\ pending' = [pending EXCEPT ![p] = Idle]
    /\ UNCHANGED <<locked, now, proc_vars, broker_session>>

NextWorkers ==
    \/ startup_event
    \/ worker_startup
    \/ \E p \in Workers, w \in InputWatchlistIds, sym \in InputSymbols :
          add_stock_check(p, w, sym)
    \/ \E p \in Workers : add_stock_insert(p)

SpecWorkers == InitStore /\ [][NextWorkers]_vars

----------------------------------------------------------------------------
(* SpecBroker: processes started and restarted under every environment,    *)
(* login outcome and broker answer, reading the seeded store.              *)

NextBroker ==
    \/ SessionExpire
    \/ Restart
    \/ startup_event
    \/ \E w \in InputWatchlistIds, feed \in Feeds(broker_session) :
          get_watchlist_stocks(w, feed)
    \/ health_check
    \/ get_watchlists
    \/ \E reply \in IndexReplies(broker_session) : get_market_indices(reply)

SpecBroker == Init /\ [][NextBroker]_vars

----------------------------------------------------------------------------
(* Claims.                                                                 *)

Quotes == last.body.stocks

SymbolsOf(q) == [i \in DOMAIN q |-> q[i].symbol]

\* the symbols of the membership rows of w, in the order they were inserted
InsertionOrder(d, w) ==
    LET rows == RowsOf(d.stocks, w) IN [i \in DOMAIN rows |-> rows[i].symbol]

\* C1: in every reachable state the store holds at most one membership row for
\* each (watchlist_id, symbol) pair.
PairUnique ==
    \A i, j \in DOMAIN db.stocks :
        (db.stocks[i].watchlist_id = db.stocks[j].watchlist_id
            /\ db.stocks[i].symbol = db.stocks[j].symbol) => i = j

SeededOnce(d) ==
    /\ Cardinality({i \in DOMAIN d.watchlists : d.watchlists[i].name = "My Portfolio"}) = 1
    /\ \E i \in DOMAIN d.watchlists :
          d.watchlists[i] = [id |-> 1, name |-> "My Portfolio"]
    /\ \A k \in DOMAIN default_stocks : CountPair(d, 1, default_stocks[k]) = 1

\* C2: startup seeding is idempotent: a startup that directly follows a startup
\* leaves the store as the first one left it, with one "My Portfolio" watchlist
\* (id 1) and one membership row of watchlist 1 per default symbol.
SeedingIdempotent ==
    [][(last.op = "startup" /\ last'.op = "startup" /\ starts' = starts + 1)
          => (db' = db /\ SeededOnce(db'))]_vars

\* C3: of two add_stock calls in a row for the same watchlist and symbol, the
\* symbol not being a member before the first, the first succeeds, the second is
\* rejected with status 400 and leaves the store unchanged, and the membership
\* count of the watchlist ends one higher than before the first call.
AddTwice ==
    [][(/\ last.op = "add_stock" /\ ~last.member0
        /\ last'.op = "add_stock" /\ last'.w = last.w /\ upper(last'.s) = upper(last.s)
        /\ last' # last)
          => (/\ last.status = 200
              /\ last'.status = 400
              /\ db' = db
              /\ CountOf(db', last.w) = last.cnt0 + 1)]_vars

\* C4: for every watchlist that list_watchlists reports, its stock_count equals
\* the number of symbols list_symbols returns for it.
CountMatchesList ==
    LET ws == list_watchlists(db)
    IN \A i \in DOMAIN ws : ws[i].stock_count = Len(list_symbols(db, ws[i].id))

\* after a removal that deleted a row: watchlist 1 is reported with one symbol less
CountMatchesListWitness ==
    /\ last.op = "remove_stock" /\ last.w = 1 /\ last.member0
    /\ \E i \in DOMAIN list_watchlists(db) :
          /\ list_watchlists(db)[i].id = 1
          /\ list_watchlists(db)[i].stock_count = last.cnt0 - 1
          /\ Len(list_symbols(db, 1)) = last.cnt0 - 1

\* C5: remove_stock of a symbol that is not a member of the watchlist succeeds
\* and leaves the store unchanged.
RemoveIdempotent ==
    [][(last'.op = "remove_stock" /\ ~last'.member0)
          => (last'.status = 200 /\ db' = db)]_vars

\* C6: a create_watchlist one of whose membership inserts fails is an error, and
\* the store afterwards equals the store before the call.
CreateAtomic ==
    [][(last'.op = "create_watchlist" /\ last'.body.fail_at # 0)
          => (last'.status = 500 /\ db' = db)]_vars

\* a create_watchlist whose second insert failed: no watchlist row with the id it
\* would have got, no membership row more than before
CreateAtomicWitness ==
    /\ last.op = "create_watchlist" /\ last.body.fail_at = 2
    /\ last.status = 500
    /\ \A i \in DOMAIN db.watchlists : db.watchlists[i].id # last.w
    /\ CountOf(db, last.w) = last.cnt0

\* C7: get_quotes(w) returns one quote per membership row of w, in insertion
\* order; and the get_quotes(n) that follows a create_watchlist("Tech",
\* ["tcs", "infy"]) returning id n returns exactly the quotes of "TCS" and "INFY",
\* in this order.
CreateThenQuotes ==
    [][(last'.op = "get_watchlist_stocks" /\ last' # last)
          => (/\ SymbolsOf(last'.body.stocks) = InsertionOrder(db, last'.w)
              /\ (/\ last.op = "create_watchlist" /\ last.status = 200
                  /\ last.body.symbols = <<"tcs", "infy">>
                  /\ last'.w = last.w)
                    => SymbolsOf(last'.body.stocks) = <<"TCS", "INFY">>)]_vars

\* the outcome of the broker lookup of one symbol during the recorded call
LookupOk(sym) ==
    /\ smart_api
    /\ access_token = "jwt"
    /\ ltpData(last.body.feed, token_for(sym)).kind = "ok"

\* C8: every quote of get_quotes is decided by the broker lookup of its symbol: on
\* success the broker's ltp, change and changePercent with volume 0 and sector
\* "Live Data", on any failure the mock quote with sector "Technology"; the call
\* itself never fails.
QuoteByLookup ==
    (started /\ last.op = "get_watchlist_stocks") =>
        /\ last.status = 200
        /\ Len(Quotes) = CountOf(db, last.w)
        /\ \A i \in DOMAIN Quotes :
              LET sym == Quotes[i].symbol
                  reply == ltpData(last.body.feed, token_for(sym))
              IN IF LookupOk(sym)
                 THEN /\ Quotes[i].ltp = reply.ltp
                      /\ Quotes[i].change = (IF reply.has_change THEN reply.change ELSE 0)
                      /\ Quotes[i].changePercent =
                            <<IF reply.has_change THEN reply.pChange ELSE 0, 1>>
                      /\ Quotes[i].volume = 0
                      /\ Quotes[i].sector = "Live Data"
                 ELSE /\ Quotes[i] = mock_quote(hash_seed, sym)
                      /\ Quotes[i].sector = "Technology"

\* one response with a live quote and a mock quote, under a held session
QuoteByLookupWitness ==
    /\ started /\ last.op = "get_watchlist_stocks" /\ access_token = "jwt"
    /\ \E i, j \in DOMAIN Quotes :
          /\ Quotes[i].sector = "Live Data" /\ Quotes[i].volume = 0
          /\ Quotes[j].sector = "Technology"
          /\ last.body.feed[token_for(Quotes[j].symbol)].kind = "raises"

\* C9: a process whose login failed or that lacks a credential runs in mock-only
\* mode: health answers "Mock Data", and get_quotes(1) answers with the mock
\* quote of every symbol of watchlist 1.
MockOnlyMode ==
    (started /\ access_token # "jwt") =>
        /\ last.op = "health_check" => (last.status = 200 /\ last.body = "Mock Data")
        /\ (last.op = "get_watchlist_stocks" /\ last.w = 1) =>
              /\ last.status = 200
              /\ Len(Quotes) = CountOf(db, 1)
              /\ \A i \in DOMAIN Quotes : Quotes[i] = mock_quote(hash_seed, Quotes[i].symbol)

\* C10: a symbol outside the static token table always misses the broker lookup:
\* it never gets a "Live Data" quote, its quote is the mock quote.
UnknownSymbolsMiss ==
    (started /\ last.op = "get_watchlist_stocks") =>
        \A i \in DOMAIN Quotes :
            Quotes[i].symbol \notin DOMAIN symbol_tokens => Quotes[i].sector # "Live Data"

\* C11: the only login is the one of startup and the session is never renewed:
\* the broker grants a session only in a startup step, the client's token changes
\* only when a process starts or exits, and every quote of a request served after
\* the session has expired is the mock quote of its symbol.
NoRenewal ==
    [][/\ (broker_session' = "valid" /\ broker_session # "valid")
            => (last'.op = "startup" /\ starts' = starts + 1)
       /\ (access_token' # access_token) => (starts' = starts + 1 \/ ~started')
       /\ (last'.op = "get_watchlist_stocks" /\ last' # last /\ broker_session = "expired")
            => \A i \in DOMAIN last'.body.stocks :
                  last'.body.stocks[i] = mock_quote(hash_seed, last'.body.stocks[i].symbol)]_vars

\* the quotes of watchlist 1 served by a process that still holds its token after
\* the broker has ended the session: all five are mock quotes
NoRenewalWitness ==
    /\ started /\ access_token = "jwt" /\ broker_session = "expired"
    /\ last.op = "get_watchlist_stocks" /\ last.session = "expired" /\ last.w = 1
    /\ Len(Quotes) >= 5
    /\ \A i \in DOMAIN Quotes : Quotes[i].sector = "Technology"

\* the symbols that get quotes
QuotedSymbols == {default_stocks[k] : k \in DOMAIN default_stocks} \cup {"ITC"}

\* C12: the mock quote of every symbol is the same on every call, within a process
\* and across process restarts: no step changes the quote the service produces for
\* a symbol.
MockQuoteStable ==
    [][\A s \in QuotedSymbols : mock_quote(hash_seed', s) = mock_quote(hash_seed, s)]_vars

\* the mock quotes of the recorded response
MockQuotes == {i \in DOMAIN Quotes : Quotes[i].sector = "Technology"}

\* C13: with h the hash of the symbol, base = 1000 + (h mod 2000) and
\* delta = (h mod 200) - 100, every mock quote has ltp = base + delta,
\* change = delta, volume = 100000 + (h mod 1000000) and sector "Technology".
MockFormulaLtpBasePlusDelta ==
    (started /\ last.op = "get_watchlist_stocks") =>
        \A i \in MockQuotes :
            LET h == hash(hash_seed, Quotes[i].symbol)
                base == 1000 + (h % 2000)
                delta == (h % 200) - 100
            IN /\ Quotes[i].ltp = base + delta
               /\ Quotes[i].change = delta
               /\ Quotes[i].volume = 100000 + (h % 1000000)

\* C13, amended: every mock quote has ltp = base, the change is not added to it;
\* change = delta, volume = 100000 + (h mod 1000000) and sector "Technology".
MockFormulaLtpBase ==
    (started /\ last.op = "get_watchlist_stocks") =>
        \A i \in DOMAIN Quotes :
            (~LookupOk(Quotes[i].symbol)) =>
                LET h == hash(hash_seed, Quotes[i].symbol)
                    base == 1000 + (h % 2000)
                    delta == (h % 200) - 100
                IN /\ Quotes[i].ltp = base
                   /\ Quotes[i].change = delta
                   /\ Quotes[i].volume = 100000 + (h % 1000000)
                   /\ Quotes[i].sector = "Technology"
                   /\ base \in 1000..2999 /\ delta \in -100..99

\* a response with the mock quotes of a symbol whose hash is negative and of one
\* whose hash is positive, both with a change other than 0
MockFormulaLtpBaseWitness ==
    /\ started /\ last.op = "get_watchlist_stocks"
    /\ \E i, j \in MockQuotes :
          /\ hash(hash_seed, Quotes[i].symbol) < 0
          /\ hash(hash_seed, Quotes[j].symbol) > 0
          /\ Quotes[i].change # 0 /\ Quotes[j].change # 0
          /\ Quotes[i].ltp = 1000 + (hash(hash_seed, Quotes[i].symbol) % 2000)

\* C14: two add_stock calls for the same new pair can both pass the existence
\* check before either inserts, and then both succeed: the insert of a call that
\* has passed its check succeeds and stores one row more for the pair, whether or
\* not another call has stored a row for the pair in between.
AddStockRace ==
    [][\A p \in Workers :
          (pending[p] # Idle /\ pending'[p] = Idle) =>
              LET r == pending[p]
              IN /\ last'.op = "add_stock" /\ last'.w = r.w /\ last'.s = r.s
                 /\ last'.status = 200
                 /\ CountPair(db', r.w, upper(r.s)) = CountPair(db, r.w, upper(r.s)) + 1]_vars

\* a successful add_stock of a pair that had no row when the call checked and one
\* when it inserted: the pair, not a seeded one, now has two rows
AddStockRaceWitness ==
    /\ last.op = "add_stock" /\ last.status = 200 /\ last.member0
    /\ (last.w # 1 \/ upper(last.s) = "ITC")
    /\ CountPair(db, last.w, upper(last.s)) = 2

\* C15: get_quotes, list_watchlists and health never write: a step of one of
\* them leaves the watchlist rows, the membership rows, the id counters and the
\* broker client's token as they were, whichever path each symbol takes.
ReadsNeverWrite ==
    [][(last'.op \in {"get_watchlist_stocks", "get_watchlists", "health_check"}
            /\ last' # last)
          => (db' = db /\ access_token' = access_token /\ smart_api' = smart_api)]_vars

\* after a get_quotes(1) that took the live path for one symbol and the mock path
\* for another: the store is as startup seeded it and the token is held
ReadsNeverWriteWitness ==
    /\ started /\ last.op = "get_watchlist_stocks" /\ last.w = 1
    /\ \E i, j \in DOMAIN Quotes :
          Quotes[i].sector = "Live Data" /\ Quotes[j].sector = "Technology"
    /\ access_token = "jwt"
    /\ starts = 1 /\ db = init_db(EmptyDb, 0)

\* C16: list_watchlists returns every watchlist that was seeded or created, each
\* once and in ascending id order, and reports a watchlist without membership
\* rows with stock_count 0.
ListsEveryWatchlist ==
    started =>
        LET ws == list_watchlists(db)
        IN /\ \A i, j \in DOMAIN ws : i < j => ws[i].id < ws[j].id
           /\ {ws[i].id : i \in DOMAIN ws} = 1..db.seq_w
           /\ \A k \in DOMAIN default_watchlists :
                 \E i \in DOMAIN ws : /\ ws[i].id = default_watchlists[k].id
                                      /\ ws[i].name = default_watchlists[k].name
           /\ \A i \in DOMAIN ws :
                 (ws[i].id > Len(default_watchlists)) => ws[i].name \in InputNames
           /\ \A i \in DOMAIN ws :
                 (\A r \in DOMAIN db.stocks : db.stocks[r].watchlist_id # ws[i].id)
                    => ws[i].stock_count = 0
           /\ last.op = "get_watchlists" => last.body = ws

\* a listing with the created watchlist 4 at stock_count 0 after the two rows it
\* had were removed, next to the seeded watchlists 1 (5 symbols), 2 and 3 (none)
ListsEveryWatchlistWitness ==
    /\ last.op = "get_watchlists"
    /\ db.seq_s >= Len(default_stocks) + 2 /\ CountOf(db, 1) = Len(default_stocks)
    /\ Len(last.body) = 4
    /\ last.body[1].stock_count = 5
    /\ last.body[2] = [id |-> 2, name |-> "Growth Stocks", stock_count |-> 0]
    /\ last.body[4] = [id |-> 4, name |-> "Tech", stock_count |-> 0]

\* the watchlist ids that list_watchlists reports
ListedIds(d) == {list_watchlists(d)[i].id : i \in DOMAIN list_watchlists(d)}

\* the symbols that list_symbols returns for w
ListedSymbols(d, w) == {list_symbols(d, w)[i] : i \in DOMAIN list_symbols(d, w)}

\* C17: add_stock(w, s) for an id w that no watchlist has, s not stored for w,
\* succeeds and stores a membership row for w; list_symbols(w) then returns s
\* although list_watchlists reports no watchlist w.
AddStockOrphan ==
    [][(/\ last'.op = "add_stock" /\ last' # last
        /\ last'.w \notin ListedIds(db)
        /\ ~last'.member0)
          => (/\ last'.status = 200
              /\ CountPair(db', last'.w, upper(last'.s)) = 1
              /\ Len(db'.stocks) = Len(db.stocks) + 1
              /\ upper(last'.s) \in ListedSymbols(db', last'.w)
              /\ last'.w \notin ListedIds(db'))]_vars

\* the spellings of each symbol of the model
Spellings == {{"tcs", "TCS"}, {"infy", "INFY"}, {"itc", "ITC"}}

SameIgnoringCase(a, b) == a = b \/ \E sp \in Spellings : {a, b} \subseteq sp

HasLowercase(s) == s \in {"tcs", "infy", "itc"}

\* C18: every stored membership symbol is uppercase; an add_stock(w, s) is
\* rejected and changes nothing when some spelling of s is a member of w; after
\* remove_stock(w, s) no spelling of s is a member of w.
SymbolsUppercase ==
    [][/\ \A i \in DOMAIN db'.stocks : ~HasLowercase(db'.stocks[i].symbol)
       /\ (/\ last'.op = "add_stock" /\ last' # last
           /\ \E i \in DOMAIN db.stocks :
                 /\ db.stocks[i].watchlist_id = last'.w
                 /\ SameIgnoringCase(db.stocks[i].symbol, last'.s))
             => (last'.status = 400 /\ db' = db)
       /\ (last'.op = "remove_stock" /\ last' # last)
             => \A i \in DOMAIN db'.stocks :
                   ~(/\ db'.stocks[i].watchlist_id = last'.w
                     /\ SameIgnoringCase(db'.stocks[i].symbol, last'.s))]_vars

\* C19: after remove_stock(w, s), s is not among list_symbols(w), however many
\* rows the pair had; the watchlist rows and the id counters are unchanged, the
\* membership rows are those of before without the rows of the pair, and
\* list_symbols(w) is the list of before without s, in the same order.
RemoveFrame ==
    [][(last'.op = "remove_stock" /\ last' # last) =>
          LET w == last'.w
              sym == upper(last'.s)
              Kept(r) == ~(r.watchlist_id = w /\ r.symbol = sym)
              Other(x) == x # sym
          IN /\ last'.status = 200
             /\ sym \notin ListedSymbols(db', w)
             /\ db'.watchlists = db.watchlists
             /\ db'.seq_w = db.seq_w /\ db'.seq_s = db.seq_s
             /\ db'.stocks = SelectSeq(db.stocks, Kept)
             /\ list_symbols(db', w) = SelectSeq(list_symbols(db, w), Other)
             /\ \A v \in InputWatchlistIds \ {w} : list_symbols(db', v) = list_symbols(db, v)]_vars

\* C20: after startup no step of a running process writes the broker client's
\* token, and health answers "Connected" exactly when the token is held, so its
\* answer is the same for the whole process lifetime, also after the broker has
\* ended the session, when every quote served is a mock quote.
HealthStatusFrozen ==
    [][/\ (started /\ started') => access_token' = access_token
       /\ (last'.op = "health_check" /\ last' # last)
             => /\ (last'.body = "Connected") <=> (access_token = "jwt")
                /\ (last'.body = "Mock Data") <=> (access_token = "None")
                /\ access_token' = access_token
       /\ (last'.op = "get_watchlist_stocks" /\ last' # last /\ last'.session = "expired")
             => \A i \in DOMAIN last'.body.stocks :
                   last'.body.stocks[i].sector = "Technology"]_vars

\* health answering "Connected" to a request served after the session expired
HealthStatusFrozenWitness ==
    /\ started /\ last.op = "health_check" /\ last.status = 200
    /\ last.body = "Connected"
    /\ last.session = "expired" /\ broker_session = "expired"

====
